---------------------------- MODULE Spec2Model ----------------------------
(***************************************************************************)
(* Technical-indicator and signal-detection engine of the finance tracker  *)
(* dashboard (src/components/technical.py, comparison.py, portfolio.py).   *)
(*                                                                         *)
(* Numbers.  Prices are positive integers.  Every derived value is an      *)
(* exact fraction <<n, d>> with d >= 0: d > 0 is the finite value n/d,     *)
(* <<0, 0>> is NaN, <<1, 0>> is +inf and <<-1, 0>> is -inf, with the IEEE  *)
(* rules pandas/numpy follow for x/0, 0/0, comparisons with NaN and        *)
(* arithmetic on inf.  Rounding of float64 is not modelled.                *)
(*                                                                         *)
(* Series.  A series is a sequence; position t (1-based) is the bar with   *)
(* 0-based index t-1 of the source.  The date index of a frame is the      *)
(* position: dates are strictly increasing and unique.                     *)
(***************************************************************************)
EXTENDS Integers, Sequences, FiniteSets, TLC

VARIABLES
    hist,          \* the price frame: column name -> series
    ma_periods,    \* show_moving_averages: <<short period, long period>>
    periods,       \* calculate_rsi: the periods argument
    window,        \* calculate_atr / identify_pivot_points: the window argument
    pivot_points,  \* identify_pivot_points: the frame it returns, rows in order
    max_drawdown,  \* calculate_max_drawdown: the value it returns
    indicators,    \* show_oscillators: [show_rsi, show_macd] as selected in the sidebar
    spans,         \* calculate_macd: <<fast, slow, signal>>
    rsi_report,    \* show_oscillators: what the RSI interpretation writes
    strong_levels, \* identify_strong_levels: the list of levels it returns
    tickers,       \* show_correlation_analysis: the tickers asked for, in order
    market,        \* what the data provider holds: ticker -> date -> close, 0: no bar
    fill_method,   \* DataFrame.pct_change's default of the installed pandas
    correlations,  \* the list of pairs <<Stock 1, Stock 2, Correlation>> built from the matrix
    highest_corr,  \* corr_df.nlargest(3, 'Correlation')
    lowest_corr,   \* corr_df.nsmallest(3, 'Correlation')
    correlation,   \* show_correlation_analysis: the matrix, ticker -> ticker -> value
    shares,        \* the share counts entered, one per ticker
    portfolio_data,    \* get_portfolio_data: the list of holdings it returns
    portfolio_values,  \* show_portfolio_performance: date -> value of the portfolio
    now,           \* the wall clock, in seconds
    last_request_time, \* utils._last_request_time
    callers,       \* rate_limit_request: caller -> its position and locals
    admitted,      \* the times at which rate_limit_request returned, in order
    max_retries,   \* get_stock_info: the max_retries argument
    attempt,       \* get_stock_info: the loop variable
    fetches,       \* get_stock_info: what each read of stock.info gave, in order
    info,          \* get_stock_info: what it returned, "running" before
    shown,         \* what the page displays
    pc             \* position of the request: "fetched", then "done"

techVars == <<hist, ma_periods, periods, window, pivot_points, max_drawdown>>

oscVars == <<indicators, spans, rsi_report>>

corrVars == <<tickers, market, fill_method, correlation, correlations, highest_corr, lowest_corr>>

portVars == <<shares, portfolio_data, portfolio_values>>

rateVars == <<now, last_request_time, callers, admitted>>

infoVars == <<max_retries, attempt, fetches, info>>

serviceVars == <<portVars, rateVars, infoVars>>

vars == <<techVars, oscVars, strong_levels, corrVars, serviceVars, shown, pc>>

(***************************************************************************)
(* Bounds of the model.                                                    *)
(***************************************************************************)
MaxLen == 5        \* longest enumerated price series
MaxPrice == 3      \* prices are drawn from 1..MaxPrice
MaxPeriod == 5     \* largest moving-average period drawn
MaxWindow == 2     \* largest RSI / ATR / pivot window drawn
MaxBars == 5       \* longest enumerated high/low bar series (pivots)
AtrBars == 3       \* longest enumerated high/low/close bar series (ATR)
CorrDates == 3     \* dates of the comparison period
CorrMaxPrice == 2  \* closes of the compared tickers are drawn from 1..CorrMaxPrice
OscLen == 6        \* longest price series of the oscillator tab
OscMaxPrice == 2   \* prices of the oscillator tab are drawn from 1..OscMaxPrice
BollingerLen == 8  \* longest price series of the Bollinger analysis
MaxTime == 4       \* the clock of the rate limiter stops after MaxTime seconds
MaxRequests == 3   \* calls of rate_limit_request begun by the concurrent callers
MaxRetries == 4    \* largest max_retries drawn for get_stock_info
MaxPivots == 4     \* most pivot values given to identify_strong_levels

(***************************************************************************)
(* Constants of the program.                                               *)
(***************************************************************************)
RecentBars == 5      \* hist.tail(5)
RsiOverbought == 70  \* current_rsi > 70
RsiOversold == 30    \* current_rsi < 30
TopK == 3            \* nlargest(3, ...), nsmallest(3, ...)
MinRequestInterval == 2  \* _min_request_interval = 2.0
InitialDelay == 2    \* get_stock_info(..., initial_delay=2)

(***************************************************************************)
(* float64 values as exact fractions with NaN and +-inf.                   *)
(***************************************************************************)
NaN == <<0, 0>>

Abs(x) == IF x < 0 THEN -x ELSE x

Sgn(x) == IF x > 0 THEN 1 ELSE IF x < 0 THEN -1 ELSE 0

R(i) == <<i, 1>>

isnan(a) == a[1] = 0 /\ a[2] = 0

isinf(a) == a[1] # 0 /\ a[2] = 0

isfinite(a) == a[2] > 0

\* a < b, a > b, a <= b, a >= b, a == b of numpy: False when either is NaN.
Lt(a, b) ==
    /\ ~isnan(a) /\ ~isnan(b)
    /\ IF a[2] = 0 /\ b[2] = 0 THEN a[1] < b[1]
       ELSE a[1] * b[2] < b[1] * a[2]

Gt(a, b) == Lt(b, a)

Eq(a, b) ==
    /\ ~isnan(a) /\ ~isnan(b)
    /\ IF a[2] = 0 /\ b[2] = 0 THEN a[1] = b[1]
       ELSE a[1] * b[2] = b[1] * a[2]

Le(a, b) == Lt(a, b) \/ Eq(a, b)

Ge(a, b) == Le(b, a)

Neg(a) == <<-a[1], a[2]>>

RECURSIVE GCD(_, _)
GCD(x, y) == IF y = 0 THEN x ELSE GCD(y, x % y)

\* A finite fraction in lowest terms (the value is unchanged).
Norm(a) ==
    IF a[2] = 0 THEN a
    ELSE LET g == GCD(Abs(a[1]), a[2]) IN <<a[1] \div g, a[2] \div g>>

Add(a, b) ==
    IF isnan(a) \/ isnan(b) THEN NaN
    ELSE IF a[2] = 0 /\ b[2] = 0 THEN (IF a[1] = b[1] THEN a ELSE NaN)
    ELSE IF a[2] = 0 THEN a
    ELSE IF b[2] = 0 THEN b
    ELSE LET g == GCD(a[2], b[2])
         IN  Norm(<<a[1] * (b[2] \div g) + b[1] * (a[2] \div g),
                    a[2] * (b[2] \div g)>>)

Sub(a, b) == Add(a, Neg(b))

Mul(a, b) ==
    IF isnan(a) \/ isnan(b) THEN NaN
    ELSE IF a[2] = 0 \/ b[2] = 0 THEN <<Sgn(a[1]) * Sgn(b[1]), 0>>
    ELSE LET x == Norm(<<a[1], b[2]>>)
             y == Norm(<<b[1], a[2]>>)
         IN  Norm(<<x[1] * y[1], x[2] * y[2]>>)

\* a / b: x/0 is +-inf, 0/0 and inf/inf are NaN, x/inf is 0.
Div(a, b) ==
    IF isnan(a) \/ isnan(b) THEN NaN
    ELSE IF a[2] = 0 /\ b[2] = 0 THEN NaN
    ELSE IF a[2] = 0 THEN <<a[1] * (IF b[1] < 0 THEN -1 ELSE 1), 0>>
    ELSE IF b[2] = 0 THEN <<0, 1>>
    ELSE IF b[1] = 0 THEN <<Sgn(a[1]), 0>>
    ELSE Mul(a, <<b[2] * Sgn(b[1]), Abs(b[1])>>)

(***************************************************************************)
(* Series utilities (pandas).                                              *)
(***************************************************************************)
\* No oscillator is selected and no level is computed.
NoRsiReport == [state |-> "None"]

OscIdle == indicators = <<>> /\ spans = <<>> /\ rsi_report = NoRsiReport

LevelsIdle == strong_levels = <<>>

\* The comparison page is idle while a single-stock request runs.
CorrIdle ==
    /\ tickers = <<>>
    /\ market = <<>>
    /\ fill_method = "pad"
    /\ correlation = <<>>
    /\ correlations = <<>>
    /\ highest_corr = <<>>
    /\ lowest_corr = <<>>
    /\ shown = {}

\* No portfolio is analysed.
PortIdle == shares = <<>> /\ portfolio_data = <<>> /\ portfolio_values = <<>>

\* _last_request_time = datetime.min: further back than any interval.
DatetimeMin == <<-1, 0>>

\* No request to the provider is under way.
RateIdle ==
    /\ now = R(0)
    /\ last_request_time = DatetimeMin
    /\ callers = <<>>
    /\ admitted = <<>>

InfoIdle == max_retries = 0 /\ attempt = 0 /\ fetches = <<>> /\ info = "running"

ServiceIdle == PortIdle /\ RateIdle /\ InfoIdle

\* All sequences over S of length lo..hi.
SeqsOf(S, lo, hi) == UNION {[1..n -> S] : n \in lo..hi}

\* Series.shift(1): every value moves one bar later, NaN enters at the start.
shift(s) == [t \in 1..Len(s) |-> IF t = 1 THEN NaN ELSE s[t - 1]]

RECURSIVE WindowSum(_, _, _)
WindowSum(s, from, to) ==
    IF from > to THEN R(0) ELSE Add(s[from], WindowSum(s, from + 1, to))

RECURSIVE SumSeq(_)
SumSeq(s) == IF s = <<>> THEN R(0) ELSE Add(s[1], SumSeq(Tail(s)))

\* A faulty variant with min_periods = 1: the mean of the bars there are.
rolling_mean_mp1(s, n) ==
    [t \in 1..Len(s) |->
        LET from == IF t >= n THEN t - n + 1 ELSE 1
        IN  IF \E u \in from..t : isnan(s[u]) THEN NaN
            ELSE Div(WindowSum(s, from, t), R(t - from + 1))]

\* Series.rolling(window=n).mean() with min_periods = n: defined at a bar only
\* when the n bars ending there exist and none of them is NaN.
rolling_mean(s, n) ==
    [t \in 1..Len(s) |->
        IF t < n \/ \E u \in (t - n + 1)..t : isnan(s[u]) THEN NaN
        ELSE Div(WindowSum(s, t - n + 1, t), R(n))]

\* The positions of the frame's bars.
Bars == 1..Len(hist["Close"])

\* A column of prices as a float series.
ToSeries(col) == [t \in 1..Len(col) |-> R(col[t])]

(***************************************************************************)
(* Moving averages and golden/death cross (show_moving_averages).          *)
(***************************************************************************)
\* f'MA_{period}'
MAName(period) ==
    CASE period = 1 -> "MA_1" [] period = 2 -> "MA_2" [] period = 3 -> "MA_3"
      [] period = 4 -> "MA_4" [] period = 5 -> "MA_5" [] period = 6 -> "MA_6"
      [] period = 7 -> "MA_7" [] period = 8 -> "MA_8" [] OTHER -> "MA_n"

\* A faulty variant without the shifted comparison: every date above is flagged.
Golden_Cross_noprev(short, long) ==
    [t \in 1..Len(short) |-> Gt(short[t], long[t])]

\* A faulty variant comparing with != where > is meant.
Golden_Cross_ne(short, long) ==
    [t \in 1..Len(short) |->
        ~Eq(short[t], long[t]) /\ Le(shift(short)[t], shift(long)[t])]

\* (short > long) & (short.shift(1) <= long.shift(1)), elementwise.
Golden_Cross(short, long) ==
    [t \in 1..Len(short) |->
        Gt(short[t], long[t]) /\ Le(shift(short)[t], shift(long)[t])]

\* (short < long) & (short.shift(1) >= long.shift(1)), elementwise.
Death_Cross(short, long) ==
    [t \in 1..Len(short) |->
        Lt(short[t], long[t]) /\ Ge(shift(short)[t], shift(long)[t])]

\* hist[hist[col]].index: the dates where a boolean column is set.
DatesWhere(col) == {t \in 1..Len(col) : col[t]}

\* The frame with column name set to series s (added or overwritten).
SetCol(h, name, s) ==
    [c \in DOMAIN h \cup {name} |-> IF c = name THEN s ELSE h[c]]

\* Lines 96-106.  The source computes one MA column per selected period and
\* compares the columns of its short and its long period (MA_50, MA_200); here
\* the selected pair <<sp, lp>> is the short and the long period, so that
\* crossings happen on short series.  The MA columns are computed from Close,
\* then the two cross columns from them.
MovingAverages(h, sp, lp) ==
    LET h1 == SetCol(h, MAName(sp), rolling_mean(ToSeries(h["Close"]), sp))
        h2 == SetCol(h1, MAName(lp), rolling_mean(ToSeries(h1["Close"]), lp))
        h3 == SetCol(h2, "Golden_Cross",
                     Golden_Cross(h2[MAName(sp)], h2[MAName(lp)]))
    IN  SetCol(h3, "Death_Cross",
               Death_Cross(h3[MAName(sp)], h3[MAName(lp)]))

\* The fixed scenario of the specification (section 8).
ScenarioCloses == <<10, 11, 12, 11, 10, 9, 8, 9, 10, 11, 12, 13, 14, 15, 16>>

Closes == SeqsOf(1..MaxPrice, 1, MaxLen) \cup {ScenarioCloses}

InitMA ==
    /\ hist \in {[Close |-> c] : c \in Closes}
    /\ ma_periods \in {p \in (1..MaxPeriod) \X (1..MaxPeriod) : p[1] # p[2]}
    /\ periods = 0
    /\ window = 0
    /\ pivot_points = <<>>
    /\ max_drawdown = NaN
    /\ OscIdle
    /\ LevelsIdle
    /\ CorrIdle
    /\ ServiceIdle
    /\ pc = "fetched"

\* Runs on the fetched frame, and again on the frame it already extended.
show_moving_averages ==
    /\ hist' = MovingAverages(hist, ma_periods[1], ma_periods[2])
    /\ pc' = "done"
    /\ UNCHANGED <<ma_periods, periods, window, pivot_points, max_drawdown, oscVars, strong_levels, corrVars, serviceVars, shown>>

NextMA == show_moving_averages

SpecMA == InitMA /\ [][NextMA]_vars


(***************************************************************************)
(* RSI (calculate_rsi, technical.py and comparison.py: the same steps).    *)
(***************************************************************************)
\* Series.diff(): NaN at the first bar.
diff(s) == [t \in 1..Len(s) |-> IF t = 1 THEN NaN ELSE Sub(s[t], s[t - 1])]

\* Series.clip(lower=0) and Series.clip(upper=0): NaN stays NaN.
clip_lower0(s) == [t \in 1..Len(s) |-> IF Lt(s[t], R(0)) THEN R(0) ELSE s[t]]

clip_upper0(s) == [t \in 1..Len(s) |-> IF Gt(s[t], R(0)) THEN R(0) ELSE s[t]]

neg(s) == [t \in 1..Len(s) |-> Neg(s[t])]

calculate_rsi(prices, n) ==
    LET delta == diff(prices)
        gain == clip_lower0(delta)
        loss == neg(clip_upper0(delta))
        avg_gain == rolling_mean(gain, n)
        avg_loss == rolling_mean(loss, n)
        rs == [t \in 1..Len(prices) |-> Div(avg_gain[t], avg_loss[t])]
    IN  [t \in 1..Len(prices) |->
            Sub(R(100), Div(R(100), Add(R(1), rs[t])))]

(***************************************************************************)
(* MACD (calculate_macd) and the oscillator tab (show_oscillators).        *)
(***************************************************************************)
\* Series.ewm(span=span, adjust=False).mean(): seeded with the first value,
\* then y[t] = alpha * x[t] + (1 - alpha) * y[t-1], alpha = 2 / (span + 1).
RECURSIVE ewm_loop(_, _, _, _)
ewm_loop(y, s, t, alpha) ==
    IF t > Len(s) THEN y
    ELSE ewm_loop(Append(y, Add(Mul(alpha, s[t]),
                                Mul(Sub(R(1), alpha), y[t - 1]))),
                  s, t + 1, alpha)

ewm_mean(s, span) ==
    IF s = <<>> THEN <<>>
    ELSE ewm_loop(<<s[1]>>, s, 2, Div(R(2), R(span + 1)))

\* Elementwise difference of two columns.
SeriesSub(x, y) == [t \in 1..Len(x) |-> Sub(x[t], y[t])]

\* A faulty variant that subtracts the operands the other way round.
Histogram_swapped(macd, sig) == SeriesSub(sig, macd)

\* df['Histogram'] = df['MACD'] - df['Signal']
Histogram(macd, sig) == SeriesSub(macd, sig)

\* calculate_macd writes five columns into the frame it was given.
calculate_macd(df, fast, slow, signal) ==
    LET EMA_fast == ewm_mean(ToSeries(df["Close"]), fast)
        EMA_slow == ewm_mean(ToSeries(df["Close"]), slow)
        MACD == SeriesSub(EMA_fast, EMA_slow)
        Signal == ewm_mean(MACD, signal)
        withEma == SetCol(SetCol(df, "EMA_fast", EMA_fast), "EMA_slow", EMA_slow)
        withSig == SetCol(SetCol(withEma, "MACD", MACD), "Signal", Signal)
    IN  SetCol(withSig, "Histogram", Histogram(MACD, Signal))

\* DataFrame.tail(n) of one column.
tail(s, n) == IF Len(s) <= n THEN s ELSE SubSeq(s, Len(s) - n + 1, Len(s))

\* any(...) over a boolean series.
any(b) == \E t \in 1..Len(b) : b[t]

\* (MACD > Signal) & (MACD.shift(1) <= Signal.shift(1)) on the given rows.
bullish_crossover(macd, sig) ==
    [t \in 1..Len(macd) |->
        Gt(macd[t], sig[t]) /\ Le(shift(macd)[t], shift(sig)[t])]

\* (MACD < Signal) & (MACD.shift(1) >= Signal.shift(1)) on the given rows.
bearish_crossover(macd, sig) ==
    [t \in 1..Len(macd) |->
        Lt(macd[t], sig[t]) /\ Ge(shift(macd)[t], shift(sig)[t])]

\* The RSI interpretation: current_rsi is hist['RSI'].iloc[-1], which is
\* never None; a NaN fails both comparisons and takes the else branch.
rsi_interpretation(h) ==
    LET current_rsi == h["RSI"][Len(h["RSI"])]
    IN  IF Gt(current_rsi, R(RsiOverbought)) THEN {"RSI Overbought"}
        ELSE IF Lt(current_rsi, R(RsiOversold)) THEN {"RSI Oversold"}
        ELSE {"RSI Neutral"}

\* st.write(f"Current RSI: {current_rsi:.2f} (<state>)"): the value and the
\* state are all that is written.
rsi_written(h) ==
    LET current_rsi == h["RSI"][Len(h["RSI"])]
    IN  [state |-> IF Gt(current_rsi, R(RsiOverbought)) THEN "Overbought"
                   ELSE IF Lt(current_rsi, R(RsiOversold)) THEN "Oversold"
                   ELSE "Neutral",
         value |-> current_rsi]

\* The MACD interpretation, with the crossover check on hist.tail(5).
macd_interpretation(h) ==
    LET n == Len(h["MACD"])
        last_macd == tail(h["MACD"], RecentBars)
        last_signal == tail(h["Signal"], RecentBars)
    IN  (IF Gt(h["MACD"][n], h["Signal"][n])
            THEN {"MACD Bullish"} ELSE {"MACD Bearish"})
        \cup (IF any(bullish_crossover(last_macd, last_signal))
                THEN {"Recent bullish crossover"}
              ELSE IF any(bearish_crossover(last_macd, last_signal))
                THEN {"Recent bearish crossover"}
              ELSE {})

\* The spans calculate_macd is run with: alpha is 1 or 1/2.  The parameters
\* of an oscillator that is not selected are not varied.
MacdSpans == {<<1, 3, 3>>, <<3, 1, 3>>}

InitOsc ==
    /\ hist \in {[Close |-> c] : c \in SeqsOf(1..OscMaxPrice, 1, OscLen)}
    /\ indicators \in [show_rsi : BOOLEAN, show_macd : BOOLEAN]
    /\ periods \in (IF indicators.show_rsi THEN 1..MaxWindow ELSE {1})
    /\ spans \in (IF indicators.show_macd THEN MacdSpans ELSE {<<1, 3, 3>>})
    /\ rsi_report = NoRsiReport
    /\ ma_periods = <<>>
    /\ window = 0
    /\ pivot_points = <<>>
    /\ max_drawdown = NaN
    /\ LevelsIdle
    /\ CorrIdle
    /\ ServiceIdle
    /\ pc = "fetched"

\* if show_rsi: hist['RSI'] = calculate_rsi(hist['Close'], periods)
RsiFrame(h) ==
    IF indicators.show_rsi
      THEN SetCol(h, "RSI", calculate_rsi(ToSeries(h["Close"]), periods))
      ELSE h

\* if show_macd: calculate_macd(hist)
MacdFrame(h) ==
    IF indicators.show_macd
      THEN calculate_macd(h, spans[1], spans[2], spans[3])
      ELSE h

\* show_oscillators(hist, show_rsi, show_macd).  col2 is bound only under
\* show_rsi, so "with col2" raises NameError when MACD alone is selected;
\* show_technical_analysis catches it and reports the error.
show_oscillators ==
    /\ pc = "fetched"
    /\ IF ~indicators.show_rsi /\ ~indicators.show_macd
         THEN /\ shown' = {"Please enable RSI or MACD"}
              /\ hist' = hist
              /\ rsi_report' = rsi_report
         ELSE \E withRsi \in {RsiFrame(hist)} :
              \E frame \in {MacdFrame(withRsi)} :
                /\ hist' = frame
                /\ rsi_report' = IF indicators.show_rsi
                                   THEN rsi_written(frame) ELSE rsi_report
                /\ shown' =
                     {"Oscillator chart"}
                     \cup (IF indicators.show_rsi
                             THEN rsi_interpretation(frame) ELSE {})
                     \cup (IF ~indicators.show_macd THEN {}
                           ELSE IF ~indicators.show_rsi
                             THEN {"Error in technical analysis"}
                           ELSE macd_interpretation(frame))
    /\ pc' = "done"
    /\ UNCHANGED <<ma_periods, periods, window, pivot_points, max_drawdown, indicators, spans, strong_levels, corrVars, serviceVars>>

NextOsc == show_oscillators

SpecOsc == InitOsc /\ [][NextOsc]_vars

(***************************************************************************)
(* ATR (calculate_atr).                                                    *)
(***************************************************************************)
AbsR(a) == <<Abs(a[1]), a[2]>>

\* DataFrame.max(axis=1): the largest of the values that are not NaN.
RowMax(vals) ==
    LET S == {k \in 1..Len(vals) : ~isnan(vals[k])}
    IN  IF S = {} THEN NaN
        ELSE vals[CHOOSE k \in S : \A m \in S : Ge(vals[k], vals[m])]

\* A faulty variant whose maximum does not skip NaN: NaN at the first bar.
true_range_nanmax(high, low, close) ==
    [t \in 1..Len(high) |->
        IF t = 1 THEN NaN
        ELSE RowMax(<<Sub(high[t], low[t]),
                      AbsR(Sub(high[t], shift(close)[t])),
                      AbsR(Sub(low[t], shift(close)[t]))>>)]

\* The true range of every bar: tr1, tr2, tr3 and their row-wise maximum.
true_range(high, low, close) ==
    [t \in 1..Len(high) |->
        RowMax(<<Sub(high[t], low[t]),
                 AbsR(Sub(high[t], shift(close)[t])),
                 AbsR(Sub(low[t], shift(close)[t]))>>)]

calculate_atr(df, n) ==
    rolling_mean(true_range(ToSeries(df["High"]), ToSeries(df["Low"]),
                            ToSeries(df["Close"])), n)

\* A bar <<high, low, close>> with low <= close <= high <= low + 1.
BarValues ==
    {b \in (1..MaxPrice) \X (1..MaxPrice) \X (1..MaxPrice) :
        b[2] <= b[3] /\ b[3] <= b[1] /\ b[1] <= b[2] + 1}

FrameOf(bars) ==
    [High |-> [t \in 1..Len(bars) |-> bars[t][1]],
     Low |-> [t \in 1..Len(bars) |-> bars[t][2]],
     Close |-> [t \in 1..Len(bars) |-> bars[t][3]]]

(***************************************************************************)
(* Bollinger bands and the volatility tab (show_volatility_indicators).    *)
(***************************************************************************)
\* The largest k with k * k <= n.
RECURSIVE isqrt(_, _, _)
isqrt(n, lo, hi) ==
    IF hi - lo <= 1 THEN lo
    ELSE LET mid == (lo + hi) \div 2
         IN  IF mid * mid <= n THEN isqrt(n, mid, hi) ELSE isqrt(n, lo, mid)

\* The square root, exact where it is a multiple of 1/16 and rounded down to
\* one otherwise; NaN for NaN.
sqrt(a) ==
    IF isnan(a) \/ a[1] < 0 THEN NaN
    ELSE IF a[2] = 0 THEN a
    ELSE Norm(<<isqrt((a[1] * 256) \div a[2], 0, 32768), 16>>)

\* The sum of the squared distances of s[from..to] from m.
RECURSIVE SquareSum(_, _, _, _)
SquareSum(s, m, from, to) ==
    IF from > to THEN R(0)
    ELSE Add(Mul(Sub(s[from], m), Sub(s[from], m)), SquareSum(s, m, from + 1, to))

\* A faulty variant with min_periods = 1.
rolling_std_mp1(s, n) ==
    [t \in 1..Len(s) |->
        LET from == IF t >= n THEN t - n + 1 ELSE 1
            m == Div(WindowSum(s, from, t), R(t - from + 1))
        IN  IF \E u \in from..t : isnan(s[u]) THEN NaN
            ELSE sqrt(Div(SquareSum(s, m, from, t), R(t - from)))]

\* Series.rolling(window=n).std(): the sample standard deviation (ddof = 1)
\* of the n bars ending at each bar, NaN while fewer than n bars exist.
rolling_std(s, n) ==
    [t \in 1..Len(s) |->
        IF t < n \/ \E u \in (t - n + 1)..t : isnan(s[u]) THEN NaN
        ELSE LET m == Div(WindowSum(s, t - n + 1, t), R(n))
             IN  sqrt(Div(SquareSum(s, m, t - n + 1, t), R(n - 1)))]

\* hist['MA_20'], hist['Upper_Band'], hist['Lower_Band'] (376-378); the
\* window, 20 in the program, is periods here.
BollingerFrame(h, n) ==
    LET close == ToSeries(h["Close"])
        ma == rolling_mean(close, n)
        sd == rolling_std(close, n)
        upper == [t \in 1..Len(close) |-> Add(ma[t], Mul(sd[t], R(2)))]
        lower == [t \in 1..Len(close) |-> Sub(ma[t], Mul(sd[t], R(2)))]
    IN  SetCol(SetCol(SetCol(h, "MA_20", ma), "Upper_Band", upper),
               "Lower_Band", lower)

\* Series.pct_change() of a column without gaps.
Returns(close) ==
    [t \in 1..Len(close) |->
        IF t = 1 THEN NaN ELSE Sub(Div(close[t], close[t - 1]), R(1))]

\* hist['ATR'], hist['Returns'], hist['Volatility_20'] (436-438).
VolatilityFrame(h, n, w) ==
    LET returns == Returns(ToSeries(h["Close"]))
        sd == rolling_std(returns, n)
        annual == Mul(sqrt(R(252)), R(100))
    IN  SetCol(SetCol(SetCol(h, "ATR", calculate_atr(h, w)), "Returns", returns),
               "Volatility_20", [t \in 1..Len(sd) |-> Mul(sd[t], annual)])

\* hist['BB_Width'] = (Upper_Band - Lower_Band) / MA_20 * 100
BBWidthFrame(h) ==
    SetCol(h, "BB_Width",
           [t \in 1..Len(h["MA_20"]) |->
               Mul(Div(Sub(h["Upper_Band"][t], h["Lower_Band"][t]), h["MA_20"][t]),
                   R(100))])

notna(a) == ~isnan(a)

\* A faulty variant of Series.mean() that does not skip NaN.
series_mean_nan(s) == Div(SumSeq(s), R(Len(s)))

\* Series.mean(): the mean of the values that are not NaN, NaN if none.
series_mean(s) ==
    LET have == SelectSeq(s, notna)
    IN  IF have = <<>> THEN NaN ELSE Div(SumSeq(have), R(Len(have)))

\* The Bollinger band analysis (487-514): the width of the current bar
\* against the average width, then the close against the bands.
bollinger_analysis(h) ==
    LET n == Len(h["Close"])
        current_bb_width == h["BB_Width"][n]
        avg_bb_width == series_mean(h["BB_Width"])
        current_close == R(h["Close"][n])
    IN  {"Current BB Width", "Average BB Width"}
        \cup (IF Gt(current_bb_width, Mul(avg_bb_width, <<6, 5>>))
                THEN {"High volatility period (wide bands)"}
              ELSE IF Lt(current_bb_width, Mul(avg_bb_width, <<4, 5>>))
                THEN {"Low volatility period (narrow bands)"}
              ELSE {})
        \cup (IF Gt(current_close, h["Upper_Band"][n])
                THEN {"Price is above upper band"}
              ELSE IF Lt(current_close, h["Lower_Band"][n])
                THEN {"Price is below lower band"}
              ELSE {})

\* The volatility metrics (516-543): a NaN volatility fails both
\* comparisons and is reported as low.
volatility_metrics(h) ==
    LET current_vol == h["Volatility_20"][Len(h["Volatility_20"])]
    IN  {"20-day Historical Volatility", "Average True Range (ATR)"}
        \cup (IF Gt(current_vol, R(40)) THEN {"Very high volatility"}
              ELSE IF Gt(current_vol, R(20)) THEN {"Moderate volatility"}
              ELSE {"Low volatility"})

\* The bars of the volatility tab: short high/low/close series with the
\* volatility metrics selected.
InitATR ==
    /\ hist \in {FrameOf(bars) : bars \in SeqsOf(BarValues, 1, AtrBars)}
    /\ indicators = [show_bollinger |-> FALSE, show_volatility |-> TRUE]
    /\ window \in 1..MaxWindow
    /\ periods = 2
    /\ ma_periods = <<>>
    /\ pivot_points = <<>>
    /\ max_drawdown = NaN
    /\ spans = <<>>
    /\ rsi_report = NoRsiReport
    /\ LevelsIdle
    /\ CorrIdle
    /\ ServiceIdle
    /\ pc = "fetched"

\* The windows of the Bollinger bands: a close outside the bands needs a
\* window of 6 bars or more.
BollingerWindows == {2, 3, 6}

BollingerPrices == {1, 2}

\* Longer series of flat bars with the Bollinger bands selected.
InitBB ==
    /\ hist \in {[High |-> c, Low |-> c, Close |-> c] :
                    c \in SeqsOf(BollingerPrices, 1, BollingerLen)}
    /\ indicators \in [show_bollinger : BOOLEAN, show_volatility : BOOLEAN]
    /\ periods \in (IF indicators.show_bollinger THEN BollingerWindows ELSE {2})
    /\ window = 1
    /\ ma_periods = <<>>
    /\ pivot_points = <<>>
    /\ max_drawdown = NaN
    /\ spans = <<>>
    /\ rsi_report = NoRsiReport
    /\ LevelsIdle
    /\ CorrIdle
    /\ ServiceIdle
    /\ pc = "fetched"

\* show_volatility_indicators(hist, show_bollinger, show_volatility).
show_volatility_indicators ==
    /\ pc = "fetched"
    /\ IF ~indicators.show_bollinger /\ ~indicators.show_volatility
         THEN /\ shown' = {"Please enable volatility indicators in the sidebar."}
              /\ hist' = hist
         ELSE \E bands \in {IF indicators.show_bollinger
                              THEN BollingerFrame(hist, periods) ELSE hist} :
              \E metrics \in {IF indicators.show_volatility
                                THEN VolatilityFrame(bands, periods, window)
                                ELSE bands} :
              \E frame \in {IF indicators.show_bollinger
                              THEN BBWidthFrame(metrics) ELSE metrics} :
                /\ hist' = frame
                /\ shown' =
                     (IF indicators.show_bollinger
                        THEN {"Bollinger Bands"} \cup bollinger_analysis(frame)
                        ELSE {})
                     \cup (IF indicators.show_volatility
                             THEN {"Volatility Metrics"} \cup volatility_metrics(frame)
                             ELSE {})
    /\ pc' = "done"
    /\ UNCHANGED <<ma_periods, periods, window, pivot_points, max_drawdown, indicators, spans, rsi_report, strong_levels, corrVars, serviceVars>>

NextATR == show_volatility_indicators

SpecATR == InitATR /\ [][NextATR]_vars

NextBB == show_volatility_indicators

SpecBB == InitBB /\ [][NextBB]_vars

(***************************************************************************)
(* Pivot points (identify_pivot_points).                                   *)
(***************************************************************************)
\* pivot_points.loc[date] = [value, type]: the row of that date is replaced
\* where it stands, a new date is appended.
LocSet(pp, date, value, type) ==
    LET row == [date |-> date, Value |-> value, Type |-> type]
    IN  IF \E k \in 1..Len(pp) : pp[k].date = date
        THEN [k \in 1..Len(pp) |-> IF pp[k].date = date THEN row ELSE pp[k]]
        ELSE Append(pp, row)

\* Series.iloc[i] for a 0-based i; a negative i counts from the end.
iloc(s, i) == IF i < 0 THEN s[Len(s) + i + 1] ELSE s[i + 1]

\* A faulty variant starting one index early.
PivotRange_early(len, w) == (w - 1)..(len - w - 1)

\* range(window, len(df) - window): 0-based indices.
PivotRange(len, w) == w..(len - w - 1)

IsPivotHigh(high, i, w) ==
    /\ \A j \in 1..w : iloc(high, i) > iloc(high, i - j)
    /\ \A j \in 1..w : iloc(high, i) > iloc(high, i + j)

IsPivotLow(low, i, w) ==
    /\ \A j \in 1..w : iloc(low, i) < iloc(low, i - j)
    /\ \A j \in 1..w : iloc(low, i) < iloc(low, i + j)

\* The loop "for i in range(...)" over the highs, from index i on; the row
\* label df.index[i] is the date, here the index itself.
RECURSIVE PivotHighs(_, _, _, _)
PivotHighs(pp, high, i, w) ==
    IF i \notin PivotRange(Len(high), w) THEN pp
    ELSE PivotHighs(IF IsPivotHigh(high, i, w)
                    THEN LocSet(pp, i, iloc(high, i), "High") ELSE pp,
                    high, i + 1, w)

RECURSIVE PivotLows(_, _, _, _)
PivotLows(pp, low, i, w) ==
    IF i \notin PivotRange(Len(low), w) THEN pp
    ELSE PivotLows(IF IsPivotLow(low, i, w)
                   THEN LocSet(pp, i, iloc(low, i), "Low") ELSE pp,
                   low, i + 1, w)

\* The first index of a range, -1 for an empty one.
FirstOf(S) == IF S = {} THEN -1 ELSE CHOOSE i \in S : \A u \in S : i <= u

identify_pivot_points(df, w) ==
    LET first == FirstOf(PivotRange(Len(df["High"]), w))
        highs == PivotHighs(<<>>, df["High"], first, w)
    IN  PivotLows(highs, df["Low"], first, w)

(***************************************************************************)
(* Strong levels (identify_strong_levels) and the support/resistance tab.  *)
(***************************************************************************)
\* threshold_pct = 0.01
ThresholdPct == <<1, 100>>

\* pivot_points['Value'].tolist(), as floats.
ValuesOf(pp) == [k \in 1..Len(pp) |-> R(pp[k].Value)]

\* The sequence without its k-th element.
Without(s, k) == SubSeq(s, 1, k - 1) \o SubSeq(s, k + 1, Len(s))

\* A faulty variant that leaves the values in the order given.
sorted_not(values) == values

\* sorted(values): ascending.
RECURSIVE sorted(_)
sorted(values) ==
    IF values = <<>> THEN <<>>
    ELSE LET k == CHOOSE k \in 1..Len(values) :
                     \A m \in 1..Len(values) : Le(values[k], values[m])
         IN  <<values[k]>> \o sorted(Without(values, k))

\* abs(p1 - p2) / p1 < threshold_pct
is_close(p1, p2) == Lt(Div(AbsR(Sub(p1, p2)), p1), ThresholdPct)

\* sum(current_cluster) / len(current_cluster): all that is kept of a cluster.
ClusterLevel(current_cluster) ==
    [price |-> Div(SumSeq(current_cluster), R(Len(current_cluster)))]

\* if len(current_cluster) >= 2: clusters.append(...)
CloseCluster(clusters, current_cluster) ==
    IF Len(current_cluster) >= 2
      THEN Append(clusters, ClusterLevel(current_cluster))
      ELSE clusters

\* The loop of find_clusters over sorted_values[1:], then the last cluster.
RECURSIVE ClusterLoop(_, _, _)
ClusterLoop(clusters, current_cluster, rest) ==
    IF rest = <<>> THEN CloseCluster(clusters, current_cluster)
    ELSE IF is_close(Head(rest), current_cluster[Len(current_cluster)])
      THEN ClusterLoop(clusters, Append(current_cluster, Head(rest)), Tail(rest))
      ELSE ClusterLoop(CloseCluster(clusters, current_cluster),
                       <<Head(rest)>>, Tail(rest))

find_clusters(values) ==
    IF values = <<>> THEN <<>>
    ELSE LET sorted_values == sorted(values)
         IN  ClusterLoop(<<>>, <<sorted_values[1]>>, Tail(sorted_values))

\* The list identify_strong_levels returns: one mean price per cluster.
identify_strong_levels(df, pp) == find_clusters(ValuesOf(pp))

\* What show_support_resistance writes for the levels it was given.
LevelMessages(h, levels) ==
    LET current_price == R(h["Close"][Len(h["Close"])])
        levels_above == {k \in 1..Len(levels) : Gt(levels[k].price, current_price)}
        levels_below == {k \in 1..Len(levels) : Lt(levels[k].price, current_price)}
    IN  IF levels = <<>>
          THEN {"No significant support or resistance levels identified."}
          ELSE {"Strong levels to watch"}
               \cup (IF levels_above = {}
                       THEN {"No significant resistance identified"}
                       ELSE {"Resistance above"})
               \cup (IF levels_below = {}
                       THEN {"No significant support identified"}
                       ELSE {"Support below"})

\* The prices of the bars of the support/resistance tab: 100 is within 1%
\* of 101 and not of 99.
PivotPrices == {99, 100, 101}

\* Bars <<high, low, close>> with low <= high; the close is the low.
PivotBars == {b \in PivotPrices \X PivotPrices \X PivotPrices :
                 b[2] <= b[1] /\ b[3] = b[2]}

InitPivot ==
    /\ hist \in {[High |-> FrameOf(bars).High, Low |-> FrameOf(bars).Low,
                  Close |-> FrameOf(bars).Close] :
                    bars \in SeqsOf(PivotBars, 1, MaxBars)}
    /\ window \in 1..MaxWindow
    /\ ma_periods = <<>>
    /\ periods = 0
    /\ pivot_points = <<>>
    /\ max_drawdown = NaN
    /\ OscIdle
    /\ LevelsIdle
    /\ CorrIdle
    /\ ServiceIdle
    /\ pc = "fetched"

\* show_support_resistance(hist): the pivots, then the chart with the pivot
\* markers and the strong levels, or the insufficient-data message.
show_support_resistance ==
    /\ pc = "fetched"
    /\ LET pp == identify_pivot_points(hist, window)
           levels == identify_strong_levels(hist, pp)
       IN  /\ pivot_points' = pp
           /\ IF pp # <<>>
                THEN /\ strong_levels' = levels
                     /\ shown' =
                          {"Price with Support & Resistance Levels"}
                          \cup (IF \E k \in 1..Len(pp) : pp[k].Type = "High"
                                  THEN {"Resistance"} ELSE {})
                          \cup (IF \E k \in 1..Len(pp) : pp[k].Type = "Low"
                                  THEN {"Support"} ELSE {})
                          \cup LevelMessages(hist, levels)
                ELSE /\ strong_levels' = strong_levels
                     /\ shown' = {"Insufficient data to identify support and resistance levels."}
    /\ pc' = "done"
    /\ UNCHANGED <<hist, ma_periods, periods, window, max_drawdown, oscVars, corrVars, serviceVars>>

NextPivot == show_support_resistance

SpecPivot == InitPivot /\ [][NextPivot]_vars

\* identify_strong_levels as a function of the list of pivot values alone:
\* pivot frames with any values in any order, rows dated by their position.
InitLevels ==
    /\ pivot_points \in
          {[k \in 1..Len(v) |-> [date |-> k - 1, Value |-> v[k], Type |-> "High"]] :
              v \in SeqsOf(PivotPrices, 0, MaxPivots)}
    /\ hist = <<>>
    /\ window = 0
    /\ ma_periods = <<>>
    /\ periods = 0
    /\ max_drawdown = NaN
    /\ OscIdle
    /\ LevelsIdle
    /\ CorrIdle
    /\ ServiceIdle
    /\ pc = "fetched"

\* strong_levels = identify_strong_levels(hist, pivot_points)
strong_levels_of_pivots ==
    /\ pc = "fetched"
    /\ strong_levels' = identify_strong_levels(hist, pivot_points)
    /\ pc' = "done"
    /\ UNCHANGED <<techVars, oscVars, corrVars, serviceVars, shown>>

NextLevels == strong_levels_of_pivots

SpecLevels == InitLevels /\ [][NextLevels]_vars

(***************************************************************************)
(* Drawdown (calculate_max_drawdown; show_portfolio_performance 371-374).  *)
(***************************************************************************)
\* A faulty variant taking the running minimum.
expanding_min(s) ==
    [t \in 1..Len(s) |->
        s[CHOOSE k \in 1..t : \A m \in 1..t : Le(s[k], s[m])]]

\* Series.expanding().max(): the largest of the bars up to each bar.
expanding_max(s) ==
    [t \in 1..Len(s) |->
        s[CHOOSE k \in 1..t : \A m \in 1..t : Ge(s[k], s[m])]]

\* (prices - rolling_max) / rolling_max
drawdowns(prices) ==
    LET rolling_max == expanding_max(prices)
    IN  [t \in 1..Len(prices) |->
            Div(Sub(prices[t], rolling_max[t]), rolling_max[t])]

\* Series.min(): the smallest value that is not NaN.
series_min(s) ==
    LET S == {k \in 1..Len(s) : ~isnan(s[k])}
    IN  IF S = {} THEN NaN
        ELSE s[CHOOSE k \in S : \A m \in S : Le(s[k], s[m])]

calculate_max_drawdown(prices) == Mul(series_min(drawdowns(prices)), R(100))

InitDD ==
    /\ hist \in {[Close |-> c] : c \in SeqsOf(1..MaxPrice, 1, MaxLen)}
    /\ ma_periods = <<>>
    /\ periods = 0
    /\ window = 0
    /\ pivot_points = <<>>
    /\ max_drawdown = NaN
    /\ OscIdle
    /\ LevelsIdle
    /\ CorrIdle
    /\ ServiceIdle
    /\ pc = "fetched"

\* calculate_max_drawdown(stock['Historical Data']['Close']); the drawdown
\* series is kept beside the prices.
show_portfolio_risk_analysis ==
    /\ pc = "fetched"
    /\ hist' = SetCol(hist, "drawdowns", drawdowns(ToSeries(hist["Close"])))
    /\ max_drawdown' = calculate_max_drawdown(ToSeries(hist["Close"]))
    /\ pc' = "done"
    /\ UNCHANGED <<ma_periods, periods, window, pivot_points, oscVars, strong_levels, corrVars, serviceVars, shown>>

NextDD == show_portfolio_risk_analysis

SpecDD == InitDD /\ [][NextDD]_vars

(***************************************************************************)
(* Correlation (show_correlation_analysis).                                *)
(***************************************************************************)
TickerNames == {"AAA", "BBB", "CCC"}

Dates == 1..CorrDates

\* hist.empty: the provider returned no bar for the ticker.
HistEmpty(tk) == \A d \in Dates : market[tk][d] = 0

\* The keys of prices_data in insertion order: the tickers asked for whose
\* history is not empty, each once.
RECURSIVE PricesDataKeys(_, _)
PricesDataKeys(tks, k) ==
    IF k > Len(tks) THEN <<>>
    ELSE LET rest == PricesDataKeys(tks, k + 1)
             seen == \E m \in 1..(k - 1) : tks[m] = tks[k]
         IN  IF seen \/ HistEmpty(tks[k]) THEN rest ELSE <<tks[k]>> \o rest

Range(seq) == {seq[k] : k \in 1..Len(seq)}

\* pd.DataFrame(prices_data): the index is the union of the series' dates, a
\* series has NaN at a date it has no bar for.
FrameIndex(cols) == {d \in Dates : \E tk \in Range(cols) : market[tk][d] # 0}

FrameAt(tk, d) == IF market[tk][d] = 0 THEN NaN ELSE R(market[tk][d])

PrevDates(idx, d) == {e \in idx : e < d}

LastOf(S) == CHOOSE e \in S : \A u \in S : u <= e

\* The column forward-filled ("pad"): the last value at or before the date.
Padded(tk, idx, d) ==
    LET have == {e \in idx : e <= d /\ market[tk][e] # 0}
    IN  IF have = {} THEN NaN ELSE R(market[tk][LastOf(have)])

\* df.pct_change(): value / previous row's value - 1, on the padded column
\* when the default fill_method is "pad"; NaN at the first row.
pct_change(tk, idx, d) ==
    IF PrevDates(idx, d) = {} THEN NaN
    ELSE LET p == LastOf(PrevDates(idx, d))
             cur == IF fill_method = "pad" THEN Padded(tk, idx, d)
                    ELSE FrameAt(tk, d)
             prev == IF fill_method = "pad" THEN Padded(tk, idx, p)
                     ELSE FrameAt(tk, p)
         IN  Sub(Div(cur, prev), R(1))

RECURSIVE SumOver(_, _)
SumOver(f, S) ==
    IF S = {} THEN R(0)
    ELSE LET d == CHOOSE e \in S : TRUE IN Add(f[d], SumOver(f, S \ {d}))

\* A coefficient: the sign of the covariance and the squared coefficient
\* cov^2 / (var_x * var_y); NaN when the divisor is 0 or no row is complete.
CorrNaN == [sign |-> 0, sq |-> NaN]

\* Pearson's coefficient of two return columns over the rows where both are
\* not NaN (DataFrame.corr, min_periods = 1).
Pearson(x, y, idx) ==
    LET rows == {d \in idx : ~isnan(x[d]) /\ ~isnan(y[d])}
        n == R(Cardinality(rows))
        sx == SumOver(x, rows)
        sy == SumOver(y, rows)
        sxy == SumOver([d \in rows |-> Mul(x[d], y[d])], rows)
        sxx == SumOver([d \in rows |-> Mul(x[d], x[d])], rows)
        syy == SumOver([d \in rows |-> Mul(y[d], y[d])], rows)
        cov == Sub(Mul(n, sxy), Mul(sx, sy))
        vx == Sub(Mul(n, sxx), Mul(sx, sx))
        vy == Sub(Mul(n, syy), Mul(sy, sy))
    IN  IF rows = {} \/ Eq(Mul(vx, vy), R(0)) THEN CorrNaN
        ELSE [sign |-> Sgn(cov[1]), sq |-> Div(Mul(cov, cov), Mul(vx, vy))]

\* returns.corr()
corr(cols) ==
    LET idx == FrameIndex(cols)
        returns == [tk \in Range(cols) |-> [d \in idx |-> pct_change(tk, idx, d)]]
    IN  [a \in Range(cols) |->
            [b \in Range(cols) |-> Pearson(returns[a], returns[b], idx)]]

\* The ticker lists of the comparison page: every list of one or two
\* names, and the three names together.
TickerLists == SeqsOf(TickerNames, 1, 2) \cup {<<"AAA", "BBB", "CCC">>}

\* The provider's closes per ticker and date, 0 where it has no bar; a
\* ticker that is not asked for is not fetched.  Of three tickers only the
\* first has dates without a bar.
Markets(tks) ==
    {m \in [TickerNames -> [Dates -> 0..CorrMaxPrice]] :
        /\ \A tk \in TickerNames \ Range(tks) : \A d \in Dates : m[tk][d] = 0
        /\ Len(tks) > 2 =>
              \A k \in 2..Len(tks) : \A d \in Dates : m[tks[k]][d] # 0}

InitCorr ==
    /\ tickers \in TickerLists
    /\ market \in Markets(tickers)
    /\ fill_method \in {"pad", "none"}
    /\ correlation = <<>>
    /\ correlations = <<>>
    /\ highest_corr = <<>>
    /\ lowest_corr = <<>>
    /\ shown = {}
    /\ hist = <<>>
    /\ ma_periods = <<>>
    /\ periods = 0
    /\ window = 0
    /\ pivot_points = <<>>
    /\ max_drawdown = NaN
    /\ OscIdle
    /\ LevelsIdle
    /\ ServiceIdle
    /\ pc = "fetched"

\* for i in range(len(columns)): for j in range(i+1, len(columns)): the
\* pairs from column i on, row by row.
RECURSIVE PairRows(_, _, _, _)
PairRows(cols, c, i, j) ==
    IF i > Len(cols) THEN <<>>
    ELSE IF j > Len(cols) THEN PairRows(cols, c, i + 1, i + 2)
    ELSE <<[Stock1 |-> cols[i], Stock2 |-> cols[j],
            Correlation |-> c[cols[i]][cols[j]]]>>
         \o PairRows(cols, c, i, j + 1)

\* The coefficient of a row as an ordered value: sign * r^2 grows with r.
Key(row) == Mul(R(row.Correlation.sign), row.Correlation.sq)

HasValue(row) == ~isnan(Key(row))

HasNaN(row) == isnan(Key(row))

\* The rows by descending coefficient, the first of equal rows first.
RECURSIVE SortDescending(_)
SortDescending(rows) ==
    IF rows = <<>> THEN <<>>
    ELSE LET k == CHOOSE k \in 1..Len(rows) :
                     /\ \A m \in 1..Len(rows) : Ge(Key(rows[k]), Key(rows[m]))
                     /\ \A m \in 1..(k - 1) : Gt(Key(rows[k]), Key(rows[m]))
         IN  <<rows[k]>> \o SortDescending(Without(rows, k))

RECURSIVE SortAscending(_)
SortAscending(rows) ==
    IF rows = <<>> THEN <<>>
    ELSE LET k == CHOOSE k \in 1..Len(rows) :
                     /\ \A m \in 1..Len(rows) : Le(Key(rows[k]), Key(rows[m]))
                     /\ \A m \in 1..(k - 1) : Lt(Key(rows[k]), Key(rows[m]))
         IN  <<rows[k]>> \o SortAscending(Without(rows, k))

head(rows, n) == SubSeq(rows, 1, IF Len(rows) < n THEN Len(rows) ELSE n)

\* DataFrame.nlargest(n, column): the rows with a value by descending value,
\* then the rows with NaN, cut to n rows.
nlargest(n, rows) ==
    head(SortDescending(SelectSeq(rows, HasValue)) \o SelectSeq(rows, HasNaN), n)

\* DataFrame.nsmallest(n, column).
nsmallest(n, rows) ==
    head(SortAscending(SelectSeq(rows, HasValue)) \o SelectSeq(rows, HasNaN), n)

show_correlation_analysis ==
    /\ pc = "fetched"
    /\ \E cols \in {PricesDataKeys(tickers, 1)} :
         IF cols # <<>>
           THEN \E c \in {corr(cols)} :
                \E rows \in {PairRows(cols, c, 1, 2)} :
                  /\ correlation' = c
                  /\ correlations' = rows
                  /\ highest_corr' = nlargest(TopK, rows)
                  /\ lowest_corr' = nsmallest(TopK, rows)
                  /\ shown' = {"Correlation Matrix", "Correlation Interpretation"}
                                \cup (IF rows # <<>>
                                      THEN {"Highest Correlations",
                                            "Lowest Correlations"}
                                      ELSE {})
           ELSE /\ UNCHANGED <<correlation, correlations, highest_corr, lowest_corr>>
                /\ shown' = {"No data available for correlation analysis"}
    /\ pc' = "done"
    /\ UNCHANGED <<tickers, market, fill_method, techVars, oscVars, strong_levels, serviceVars>>

NextCorr == show_correlation_analysis

SpecCorr == InitCorr /\ [][NextCorr]_vars

(***************************************************************************)
(* The portfolio page (get_portfolio_data, show_portfolio_performance).    *)
(* The provider is the market of the comparison page; the last date is     *)
(* today.  The purchase date and the figures derived from it (cost basis,  *)
(* gain/loss) and the descriptive fields of info are left out.             *)
(***************************************************************************)
PortfolioTickers == {<<"AAA">>, <<"AAA", "BBB">>, <<"BBB", "AAA">>}

ShareCounts == {1, 2}

\* The dates of a ticker's history.
HistIndex(tk) == {d \in Dates : market[tk][d] # 0}

\* The loop of get_portfolio_data from position k on: a ticker without
\* history is skipped; total_value is the sum so far, and the weight of a
\* holding is taken against it when the holding is appended.
RECURSIVE PortfolioLoop(_, _, _)
PortfolioLoop(data, total_value, k) ==
    IF k > Len(tickers) THEN data
    ELSE IF HistEmpty(tickers[k]) THEN PortfolioLoop(data, total_value, k + 1)
    ELSE LET current_price == market[tickers[k]][LastOf(HistIndex(tickers[k]))]
             market_value == current_price * shares[k]
             total == total_value + market_value
             weight == IF total > 0
                         THEN Mul(Div(R(market_value), R(total)), R(100))
                         ELSE R(0)
         IN  PortfolioLoop(Append(data, [Ticker |-> tickers[k],
                                         Shares |-> shares[k],
                                         Current_Price |-> current_price,
                                         Market_Value |-> market_value,
                                         Weight |-> weight]),
                           total, k + 1)

InitPort ==
    /\ tickers \in PortfolioTickers
    /\ market \in Markets(tickers)
    /\ shares \in [1..Len(tickers) -> ShareCounts]
    /\ portfolio_data = <<>>
    /\ portfolio_values = <<>>
    /\ fill_method = "pad"
    /\ correlation = <<>>
    /\ correlations = <<>>
    /\ highest_corr = <<>>
    /\ lowest_corr = <<>>
    /\ shown = {}
    /\ hist = <<>>
    /\ ma_periods = <<>>
    /\ periods = 0
    /\ window = 0
    /\ pivot_points = <<>>
    /\ max_drawdown = NaN
    /\ OscIdle
    /\ LevelsIdle
    /\ RateIdle
    /\ InfoIdle
    /\ pc = "fetched"

\* portfolio_data = get_portfolio_data(tickers, shares, dates); without a
\* holding no tab is shown.
get_portfolio_data ==
    /\ pc = "fetched"
    /\ portfolio_data' = PortfolioLoop(<<>>, 0, 1)
    /\ pc' = IF portfolio_data' # <<>> THEN "data" ELSE "done"
    /\ UNCHANGED <<portfolio_values, max_drawdown, shown>>

\* The value of the holdings that have a bar at date d; Series.add with
\* fill_value=0 counts a holding without a bar as 0.
RECURSIVE ValueAt(_, _, _)
ValueAt(data, d, k) ==
    IF k > Len(data) THEN 0
    ELSE market[data[k].Ticker][d] * data[k].Shares + ValueAt(data, d, k + 1)

\* show_portfolio_performance(portfolio_data): the value on the daily grid
\* from the first bar of any holding to today, and its maximum drawdown.
show_portfolio_performance ==
    /\ pc = "data"
    /\ \E start_date \in {FirstOf(UNION {HistIndex(portfolio_data[k].Ticker) :
                                          k \in 1..Len(portfolio_data)})} :
       \E values \in {[d \in start_date..CorrDates |->
                          R(ValueAt(portfolio_data, d, 1))]} :
       \E series \in {[t \in 1..(CorrDates - start_date + 1) |->
                          values[start_date + t - 1]]} :
         /\ portfolio_values' = values
         /\ max_drawdown' = calculate_max_drawdown(series)
         /\ shown' = {"Portfolio Value Over Time", "Maximum Drawdown"}
    /\ pc' = "done"
    /\ UNCHANGED portfolio_data

NextPort ==
    /\ get_portfolio_data \/ show_portfolio_performance
    /\ UNCHANGED <<hist, ma_periods, periods, window, pivot_points, oscVars, strong_levels, tickers, market, fill_method, correlation, correlations, highest_corr, lowest_corr, shares, rateVars, infoVars>>

SpecPort == InitPort /\ [][NextPort]_vars

(***************************************************************************)
(* The rate limiter (utils.rate_limit_request) with concurrent callers:    *)
(* sessions run in threads of one process and share the module globals.    *)
(* Each statement that reads or writes a global or the clock is a step.    *)
(***************************************************************************)
Callers == {"c1", "c2"}

IdleCaller == [at |-> "idle", current_time |-> R(0), wake |-> R(0)]

\* The calls begun: those that returned and those under way.
Begun == Len(admitted) + Cardinality({c \in Callers : callers[c].at # "idle"})

InitRate ==
    /\ now = R(0)
    /\ last_request_time = DatetimeMin
    /\ callers = [c \in Callers |-> IdleCaller]
    /\ admitted = <<>>
    /\ hist = <<>>
    /\ ma_periods = <<>>
    /\ periods = 0
    /\ window = 0
    /\ pivot_points = <<>>
    /\ max_drawdown = NaN
    /\ OscIdle
    /\ LevelsIdle
    /\ CorrIdle
    /\ PortIdle
    /\ InfoIdle
    /\ pc = "fetched"

\* The clock advances between any two steps.
Tick ==
    /\ Lt(now, R(MaxTime))
    /\ now' = Add(now, R(1))
    /\ UNCHANGED <<last_request_time, callers, admitted>>

\* current_time = datetime.now()   (line 50)
rate_limit_request_now(c) ==
    /\ callers[c].at = "idle"
    /\ Begun < MaxRequests
    /\ callers' = [callers EXCEPT ![c] = [@ EXCEPT !.at = "since", !.current_time = now]]
    /\ UNCHANGED <<now, last_request_time, admitted>>

\* time_since_last_request = (current_time - _last_request_time) and the
\* test against _min_request_interval   (lines 51-54)
rate_limit_request_since(c) ==
    /\ callers[c].at = "since"
    /\ LET time_since_last_request == Sub(callers[c].current_time, last_request_time)
           sleep_time == Sub(R(MinRequestInterval), time_since_last_request)
       IN  callers' = [callers EXCEPT ![c] =
                IF Lt(time_since_last_request, R(MinRequestInterval))
                  THEN [@ EXCEPT !.at = "sleep", !.wake = Add(now, sleep_time)]
                  ELSE [@ EXCEPT !.at = "set"]]
    /\ UNCHANGED <<now, last_request_time, admitted>>

\* time.sleep(sleep_time) returns   (line 55)
rate_limit_request_sleep(c) ==
    /\ callers[c].at = "sleep"
    /\ Ge(now, callers[c].wake)
    /\ callers' = [callers EXCEPT ![c] = [@ EXCEPT !.at = "set"]]
    /\ UNCHANGED <<now, last_request_time, admitted>>

\* _last_request_time = datetime.now() and the return: the request of the
\* caller is admitted   (line 57)
rate_limit_request_set(c) ==
    /\ callers[c].at = "set"
    /\ last_request_time' = now
    /\ admitted' = Append(admitted, now)
    /\ callers' = [callers EXCEPT ![c] = IdleCaller]
    /\ UNCHANGED now

NextRate ==
    /\ \/ Tick
       \/ \E c \in Callers : rate_limit_request_now(c)
       \/ \E c \in Callers : rate_limit_request_since(c)
       \/ \E c \in Callers : rate_limit_request_sleep(c)
       \/ \E c \in Callers : rate_limit_request_set(c)
    /\ UNCHANGED <<techVars, oscVars, strong_levels, corrVars, portVars, infoVars, shown, pc>>

SpecRate == InitRate /\ [][NextRate]_vars

(***************************************************************************)
(* get_stock_info: the retry loop around the provider's stock.info.        *)
(***************************************************************************)
\* A faulty variant running one iteration more.
range_inclusive(n) == 0..n

\* range(max_retries)
range(n) == 0..(n - 1)

\* What reading stock.info gives: a non-empty dict, an empty one, an
\* exception whose text holds "429", any other exception.
Outcomes == {"info", "empty", "429", "error"}

\* random.random() * 0.5
Jitters == {R(0), <<1, 4>>}

InitInfo ==
    /\ max_retries \in 0..MaxRetries
    /\ attempt = 0
    /\ fetches = <<>>
    /\ info = "running"
    /\ now = R(0)
    /\ last_request_time = DatetimeMin
    /\ callers = <<>>
    /\ admitted = <<>>
    /\ hist = <<>>
    /\ ma_periods = <<>>
    /\ periods = 0
    /\ window = 0
    /\ pivot_points = <<>>
    /\ max_drawdown = NaN
    /\ OscIdle
    /\ LevelsIdle
    /\ CorrIdle
    /\ PortIdle
    /\ pc = "fetched"

\* One iteration of "for attempt in range(max_retries)": the rate limiter
\* (run by this one caller), the delay before a retry, the read of
\* stock.info and what is done with its outcome.
get_stock_info_attempt ==
    /\ pc = "fetched"
    /\ attempt \in range(max_retries)
    /\ \E jitter \in Jitters, outcome \in Outcomes :
       \E time_since_last_request \in {Sub(now, last_request_time)} :
       \E sleep_time \in {IF Lt(time_since_last_request, R(MinRequestInterval))
                            THEN Sub(R(MinRequestInterval), time_since_last_request)
                            ELSE R(0)} :
       \E returned \in {Add(now, sleep_time)} :
       \E delay \in {IF attempt > 0
                       THEN Add(R(InitialDelay * 2 ^ attempt), jitter)
                       ELSE R(0)} :
         /\ last_request_time' = returned
         /\ admitted' = Append(admitted, returned)
         /\ now' = Add(returned, delay)
         /\ fetches' = Append(fetches, outcome)
         /\ IF outcome = "info"
              THEN info' = "info" /\ pc' = "done" /\ attempt' = attempt
            ELSE IF outcome = "error"
                   \/ (outcome = "429" /\ attempt = max_retries - 1)
              THEN info' = "None" /\ pc' = "done" /\ attempt' = attempt
            ELSE info' = info /\ pc' = pc /\ attempt' = attempt + 1
    /\ UNCHANGED <<max_retries, callers>>

\* The loop is exhausted: return None   (line 92)
get_stock_info_return ==
    /\ pc = "fetched"
    /\ attempt \notin range(max_retries)
    /\ info' = "None"
    /\ pc' = "done"
    /\ UNCHANGED <<max_retries, attempt, fetches, rateVars>>

NextInfo ==
    /\ get_stock_info_attempt \/ get_stock_info_return
    /\ UNCHANGED <<techVars, oscVars, strong_levels, corrVars, portVars, shown>>

SpecInfo == InitInfo /\ [][NextInfo]_vars

\* The call is not suspended for ever: each sleep ends and each read of
\* stock.info returns or raises.
SpecInfoFair == SpecInfo /\ WF_vars(NextInfo)

(***************************************************************************)
(* Claims about RSI, ATR, pivots and drawdown.                             *)
(***************************************************************************)
\* The oscillator tab has run with RSI selected.
RsiComputed == pc = "done" /\ "RSI" \in DOMAIN hist

\* The oscillator tab has run with MACD selected.
MacdComputed == pc = "done" /\ "MACD" \in DOMAIN hist

ConstantCloses == \A t \in Bars : hist["Close"][t] = hist["Close"][1]

\* C5: for a constant-price series RSI equals 100 at every index past the
\* warm-up window (0-based index >= periods): a defined value, not NaN.
C5_ConstantSeriesRsi100 ==
    (RsiComputed /\ ConstantCloses) =>
        \A t \in Bars : t > periods => Eq(hist["RSI"][t], R(100))

FlatBars ==
    \A t \in Bars :
        hist["High"][t] = hist["Close"][t] /\ hist["Low"][t] = hist["Close"][t]

\* C10 as stated: whenever open = high = low = close on every bar, ATR is 0
\* at every index past the warm-up window (0-based index >= window - 1).
C10_FlatBarsAtrZero ==
    (pc = "done" /\ FlatBars) =>
        \A t \in Bars : t >= window => Eq(hist["ATR"][t], R(0))

\* C10 as amended: when moreover the close is the same on every bar, ATR is 0
\* at every index past the warm-up window.
C10_FlatConstantBarsAtrZero ==
    (pc = "done" /\ FlatBars /\ ConstantCloses) =>
        \A t \in Bars : t >= window => Eq(hist["ATR"][t], R(0))

\* Flat bars at one price, a window of 2 or more, and bars past the warm-up.
C10_Witness ==
    /\ pc = "done" /\ FlatBars /\ ConstantCloses
    /\ window >= 2 /\ Len(hist["Close"]) > window
    /\ isnan(hist["ATR"][window - 1])
    /\ Eq(hist["ATR"][Len(hist["Close"])], R(0))

\* C1: every pivot reported by identify_pivot_points, High or Low, is at an
\* index i with window <= i < len - window.
C1_PivotsAwayFromEnds ==
    pc = "done" =>
        \A k \in 1..Len(pivot_points) :
            /\ pivot_points[k].date >= window
            /\ pivot_points[k].date < Len(hist["High"]) - window

\* Pivots are reported at the first and at the last index the claim allows,
\* and the bars nearer to both ends are reported nowhere.
C1_Witness ==
    /\ pc = "done"
    /\ Len(hist["High"]) > 2 * window + 1
    /\ \E k, m \in 1..Len(pivot_points) :
          /\ pivot_points[k].date = window
          /\ pivot_points[m].date = Len(hist["High"]) - window - 1

\* C8: for positive values the drawdown series is <= 0 at every index and 0
\* at the first index, so the maximum drawdown returned is <= 0.
C8_DrawdownNonPositive ==
    pc = "done" =>
        /\ \A t \in Bars : Le(hist["drawdowns"][t], R(0))
        /\ Eq(hist["drawdowns"][1], R(0))
        /\ Le(max_drawdown, R(0))

\* A fall below the running maximum followed by a new maximum.
C8_Witness ==
    /\ pc = "done"
    /\ Lt(max_drawdown, R(0))
    /\ \E t, u \in Bars :
          /\ 1 < t /\ t < u
          /\ Lt(hist["drawdowns"][t], R(0))
          /\ Eq(hist["drawdowns"][u], R(0))
          /\ hist["Close"][u] > hist["Close"][1]

(***************************************************************************)
(* Claims about moving averages and crossovers, stated on integer sums:    *)
(* the n-period mean at t is ClosesSum(t-n+1, t) / n.                      *)
(***************************************************************************)
RECURSIVE ClosesSum(_, _)
ClosesSum(from, to) ==
    IF from > to THEN 0 ELSE hist["Close"][to] + ClosesSum(from, to - 1)

SP == ma_periods[1]

LP == ma_periods[2]

BothDefined(t) == t >= SP /\ t >= LP

\* short[t] > long[t], short[t] < long[t], short[t] = long[t] at a bar where
\* both averages are defined.
ShortAbove(t) == ClosesSum(t - SP + 1, t) * LP > ClosesSum(t - LP + 1, t) * SP

ShortBelow(t) == ClosesSum(t - SP + 1, t) * LP < ClosesSum(t - LP + 1, t) * SP

NoDateCarriesBoth ==
    pc = "done" =>
        \A t \in Bars : ~(hist["Golden_Cross"][t] /\ hist["Death_Cross"][t])

\* C4: detection is deterministic and exclusive: a second run on the same
\* series leaves the signal columns as the first run made them, and for either
\* assignment of the two averages to short/long no date carries both a
\* GoldenCross and a DeathCross.
C4_DeterministicAndExclusive ==
    /\ []NoDateCarriesBoth
    /\ [][pc = "done" => /\ hist'["Golden_Cross"] = hist["Golden_Cross"]
                         /\ hist'["Death_Cross"] = hist["Death_Cross"]]_vars

\* The longer period is given as the short average (the swapped assignment) and
\* both kinds of cross are flagged, at different dates.
C4_Witness ==
    /\ pc = "done" /\ SP > LP
    /\ \E t, u \in Bars : hist["Golden_Cross"][t] /\ hist["Death_Cross"][u]

\* C9: for a window n with 1 <= n <= length the n-period SMA is undefined at
\* every index < n-1 and at index n-1 equals the mean of the first n closes;
\* for n greater than the length it is undefined everywhere, without error.
C9_SmaWarmUpAndFirstValue ==
    pc = "done" =>
        \A n \in {SP, LP} :
            LET sma == hist[MAName(n)]
            IN  /\ Len(sma) = Len(hist["Close"])
                /\ \A t \in Bars : t < n => isnan(sma[t])
                /\ n <= Len(sma) =>
                       /\ isfinite(sma[n])
                       /\ sma[n][1] * n = ClosesSum(1, n) * sma[n][2]

\* One average has its first value inside the series (window 2 or more), the
\* other has a window longer than the series.
C9_Witness ==
    /\ pc = "done"
    /\ 2 <= SP /\ SP <= Len(hist["Close"]) /\ isfinite(hist[MAName(SP)][SP])
    /\ LP > Len(hist["Close"])
    /\ \A t \in Bars : isnan(hist[MAName(LP)][t])

(***************************************************************************)
(* Claims about the correlation step.                                      *)
(***************************************************************************)
\* The tickers asked for that have price data.
ValidTickers == {tk \in Range(tickers) : ~HistEmpty(tk)}

\* C6: with fewer than 2 tickers with valid price data the step returns the
\* explicit insufficient-data result and neither produces nor displays a 1x1
\* or empty correlation matrix.
C6_FewerThanTwoInsufficientData ==
    (pc = "done" /\ Cardinality(ValidTickers) < 2) =>
        /\ "No data available for correlation analysis" \in shown
        /\ "Correlation Matrix" \notin shown
        /\ correlation = <<>>

CorrIsOne(c) == c.sign = 1 /\ Eq(c.sq, R(1))

CorrSame(c, e) == c.sign = e.sign /\ Eq(c.sq, e.sq)

\* Every ticker with data has a bar on every date: the series are aligned and
\* each has a return at every date after the first.
Aligned == \A tk \in ValidTickers : \A d \in Dates : market[tk][d] # 0

\* C7: with at least 2 valid aligned return series the matrix is symmetric
\* (corr[i][j] == corr[j][i]) and every diagonal entry is 1.0.
C7_SymmetricUnitDiagonal ==
    (pc = "done" /\ Cardinality(ValidTickers) >= 2 /\ Aligned) =>
        /\ \A a, b \in ValidTickers : CorrSame(correlation[a][b], correlation[b][a])
        /\ \A a \in ValidTickers : CorrIsOne(correlation[a][a])


(***************************************************************************)
(* Claims about MACD and the oscillator tab.                               *)
(***************************************************************************)
\* C11: at every index the MACD histogram is the MACD line minus the signal
\* line: adding the signal line back to the histogram gives the MACD line.
C11_HistogramIsMacdMinusSignal ==
    MacdComputed =>
        \A t \in Bars :
            /\ isfinite(hist["Histogram"][t])
            /\ Eq(Add(hist["Histogram"][t], hist["Signal"][t]), hist["MACD"][t])

\* MACD has run on a series where the histogram takes a non-zero value.
C11_Witness ==
    /\ MacdComputed
    /\ \E t \in Bars : Gt(hist["Histogram"][t], R(0))
    /\ \E t \in Bars : Lt(hist["Histogram"][t], R(0))


\* The gains and the losses of the closes over the bars t-periods+1..t.
RECURSIVE GainSum(_, _)
GainSum(from, to) ==
    IF from > to THEN 0
    ELSE LET d == hist["Close"][to] - hist["Close"][to - 1]
         IN  (IF d > 0 THEN d ELSE 0) + GainSum(from, to - 1)

RECURSIVE LossSum(_, _)
LossSum(from, to) ==
    IF from > to THEN 0
    ELSE LET d == hist["Close"][to] - hist["Close"][to - 1]
         IN  (IF d < 0 THEN -d ELSE 0) + LossSum(from, to - 1)

\* C16: past the warm-up (0-based index >= periods), whenever the average
\* loss over the window is 0 and the average gain is positive the RSI is
\* exactly 100, and no NaN or infinite RSI value reaches the caller.
C16_ZeroLossRsi100NoNaN ==
    RsiComputed =>
        \A t \in Bars : t > periods =>
            /\ (LossSum(t - periods + 1, t) = 0 /\ GainSum(t - periods + 1, t) > 0)
                  => Eq(hist["RSI"][t], R(100))
            /\ isfinite(hist["RSI"][t])

\* C13: an indicator computation does not modify its input: across every
\* step of the oscillator tab (show_oscillators with calculate_macd) the
\* caller's price frame keeps exactly the columns and values it had.
C13_InputFrameUnmodified == [][hist' = hist]_vars

\* The MACD interpretation was written: both oscillators are selected.
MacdInterpreted == MacdComputed /\ indicators.show_rsi /\ indicators.show_macd

\* A bullish / bearish crossover occurs at bar t.
BullishAt(t) ==
    /\ t > 1
    /\ Gt(hist["MACD"][t], hist["Signal"][t])
    /\ Le(hist["MACD"][t - 1], hist["Signal"][t - 1])

BearishAt(t) ==
    /\ t > 1
    /\ Lt(hist["MACD"][t], hist["Signal"][t])
    /\ Ge(hist["MACD"][t - 1], hist["Signal"][t - 1])

\* The last 5 bars.
LastBars == {t \in Bars : t > Len(hist["Close"]) - RecentBars}

\* C19: a bullish or bearish MACD crossover at any of the last 5 bars is
\* surfaced as a recent crossover; a crossover at an earlier bar is not.
C19_RecentCrossoverSurfaced ==
    MacdInterpreted =>
        /\ "Recent bullish crossover" \in shown <=> \E t \in LastBars : BullishAt(t)
        /\ "Recent bearish crossover" \in shown <=> \E t \in LastBars : BearishAt(t)

\* The RSI at bar t is in the Overbought / Oversold zone.
InZone(state, t) ==
    IF state = "Overbought" THEN Gt(hist["RSI"][t], R(RsiOverbought))
    ELSE Lt(hist["RSI"][t], R(RsiOversold))

\* The bars at which the RSI crosses into the zone: in it at t, not at t-1.
Crossings(state) ==
    {t \in Bars : InZone(state, t) /\ (t = 1 \/ ~InZone(state, t - 1))}

\* C21: the current bar is classified Overbought exactly when RSI > 70 and
\* Oversold exactly when RSI < 30, never both, and the state is reported
\* together with the date of the most recent crossing into it.
C21_RsiStateWithCrossingDate ==
    RsiComputed =>
        LET current_rsi == hist["RSI"][Len(hist["RSI"])]
        IN  /\ rsi_report.state = "Overbought" <=> Gt(current_rsi, R(RsiOverbought))
            /\ rsi_report.state = "Oversold" <=> Lt(current_rsi, R(RsiOversold))
            /\ rsi_report.state \in {"Overbought", "Oversold"} =>
                  /\ "crossing" \in DOMAIN rsi_report
                  /\ rsi_report.crossing = LastOf(Crossings(rsi_report.state))

BollingerAnalysed == pc = "done" /\ indicators.show_bollinger

\* The band-width% of the current bar and the average over the bars that
\* have one, read from the frame.
CurrentWidth == hist["BB_Width"][Len(hist["BB_Width"])]

WidthBars == SelectSeq(hist["BB_Width"], LAMBDA w : ~isnan(w))

AverageWidth ==
    IF WidthBars = <<>> THEN NaN ELSE Div(SumSeq(WidthBars), R(Len(WidthBars)))

\* C22: for the current bar, squeeze is reported exactly when the band-width%
\* is below 0.8 times the series average and expansion exactly when it is
\* above 1.2 times the average, never both; an upper breakout exactly when
\* the close is above the upper band and a lower breakout exactly when it is
\* below the lower band, never both.
C22_BollingerState ==
    BollingerAnalysed =>
        LET n == Len(hist["Close"])
            close == R(hist["Close"][n])
            squeeze == "Low volatility period (narrow bands)" \in shown
            expansion == "High volatility period (wide bands)" \in shown
            above == "Price is above upper band" \in shown
            below == "Price is below lower band" \in shown
        IN  /\ squeeze <=> Lt(CurrentWidth, Mul(AverageWidth, <<4, 5>>))
            /\ expansion <=> Gt(CurrentWidth, Mul(AverageWidth, <<6, 5>>))
            /\ ~(squeeze /\ expansion)
            /\ above <=> Gt(close, hist["Upper_Band"][n])
            /\ below <=> Lt(close, hist["Lower_Band"][n])
            /\ ~(above /\ below)

\* Wide bands with the close above the upper band, after bars whose width
\* is undefined.
C22_Witness ==
    /\ BollingerAnalysed
    /\ isnan(hist["BB_Width"][1])
    /\ "High volatility period (wide bands)" \in shown
    /\ "Price is above upper band" \in shown

\* C25: for every combination of show_rsi and show_macd with at least one
\* of them enabled, show_oscillators completes without raising, so that no
\* error ends show_technical_analysis before the tabs that follow.
C25_OscillatorsCompleteWithoutError ==
    (pc = "done" /\ (indicators.show_rsi \/ indicators.show_macd)) =>
        "Error in technical analysis" \notin shown

RsiStates == {"RSI Overbought", "RSI Oversold", "RSI Neutral"}

\* C20: when the series has fewer bars than the RSI lookback, so that the RSI
\* is undefined at the last bar, no RSI state is reported: neither
\* Overbought nor Oversold nor Neutral.
C20_UndefinedRsiNoState ==
    (RsiComputed /\ Len(hist["Close"]) < periods) =>
        /\ isnan(hist["RSI"][Len(hist["RSI"])])
        /\ shown \cap RsiStates = {}

(***************************************************************************)
(* Claims about pivots and levels on the support/resistance tab.           *)
(***************************************************************************)
InsufficientData == "Insufficient data to identify support and resistance levels."

\* C12: for a series of at most 2 * window bars pivot detection returns an
\* empty result and raises nothing, and the support/resistance view shows
\* the insufficient-data message and no pivot, chart or level.
C12_ShortSeriesInsufficientData ==
    (pc = "done" /\ Len(hist["High"]) <= 2 * window) =>
        /\ pivot_points = <<>>
        /\ strong_levels = <<>>
        /\ shown = {InsufficientData}

\* The view has run on a series of exactly 2 * window bars whose bar at
\* index window - 1 has the highest high.
C12_Witness ==
    /\ pc = "done"
    /\ Len(hist["High"]) = 2 * window
    /\ \A t \in Bars : t # window => hist["High"][window] > hist["High"][t]
    /\ shown = {InsufficientData}

\* The row reported for the bar with 0-based index i has the given type.
ReportedAs(i, type) ==
    \E k \in 1..Len(pivot_points) :
        pivot_points[k].date = i /\ pivot_points[k].Type = type

\* The high of bar i is strictly above the highs of the window bars on
\* both sides; the low of bar i is strictly below the lows.
StrictHigh(i) ==
    \A j \in 1..window :
        /\ hist["High"][i + 1] > hist["High"][i + 1 - j]
        /\ hist["High"][i + 1] > hist["High"][i + 1 + j]

StrictLow(i) ==
    \A j \in 1..window :
        /\ hist["Low"][i + 1] < hist["Low"][i + 1 - j]
        /\ hist["Low"][i + 1] < hist["Low"][i + 1 + j]

\* C14: for window <= i < len - window, bar i is reported as a High pivot
\* exactly when its high is strictly greater than the highs of the window
\* bars on both sides, and as a Low pivot exactly when its low is strictly
\* less than their lows; a tie prevents the pivot.
C14_PivotIffStrictExtreme ==
    pc = "done" =>
        \A i \in window..(Len(hist["High"]) - window - 1) :
            /\ ReportedAs(i, "High") <=> StrictHigh(i)
            /\ ReportedAs(i, "Low") <=> StrictLow(i)

\* C23: the pivot signals are ordered by date: across the whole result, High
\* and Low rows together, the dates never decrease from one row to the next.
C23_PivotsOrderedByDate ==
    pc = "done" =>
        \A k \in 1..(Len(pivot_points) - 1) :
            pivot_points[k].date <= pivot_points[k + 1].date

\* The bars inside the range of the pivot loops.
PivotCandidates == window..(Len(hist["High"]) - window - 1)

\* C24: every bar whose high is a pivot high appears as a High pivot, also
\* when its low is a pivot low as well, and the number of reported pivots is
\* the number of pivot-high bars plus the number of pivot-low bars.
C24_EveryPivotHighReported ==
    pc = "done" =>
        /\ \A i \in PivotCandidates : StrictHigh(i) => ReportedAs(i, "High")
        /\ Len(pivot_points) =
              Cardinality({i \in PivotCandidates : StrictHigh(i)})
              + Cardinality({i \in PivotCandidates : StrictLow(i)})

\* The pivot values in ascending order.
SortedPivots == sorted(ValuesOf(pivot_points))

\* Two neighbouring sorted values are within 1% of each other.
Within1Pct(k) == is_close(SortedPivots[k + 1], SortedPivots[k])

\* a..b is a cluster: a maximal run of sorted values, each within 1% of the
\* one before it.
IsCluster(a, b) ==
    /\ a <= b
    /\ \A k \in a..(b - 1) : Within1Pct(k)
    /\ a = 1 \/ ~Within1Pct(a - 1)
    /\ b = Len(SortedPivots) \/ ~Within1Pct(b)

ClusterMean(a, b) == Div(SumSeq(SubSeq(SortedPivots, a, b)), R(b - a + 1))

\* C15: every reported level belongs to a cluster of at least 2 pivot values,
\* its price is the arithmetic mean of the members and its strength is the
\* number of members; a value in no cluster of 2 or more yields no level.
C15_LevelIsMeanWithStrength ==
    pc = "done" =>
        \A k \in 1..Len(strong_levels) :
            \E a, b \in 1..Len(SortedPivots) :
                /\ IsCluster(a, b)
                /\ b - a + 1 >= 2
                /\ Eq(strong_levels[k].price, ClusterMean(a, b))
                /\ "strength" \in DOMAIN strong_levels[k]
                /\ strong_levels[k].strength = b - a + 1

\* The orders in which the same pivot values can be given.
Orders(n) == {f \in [1..n -> 1..n] : \A i, j \in 1..n : f[i] = f[j] => i = j}

Permuted(values, f) == [k \in 1..Len(values) |-> values[f[k]]]

\* C30: the levels do not depend on the order of the pivot values: every
\* permutation of the same values gives the same list of levels; the levels
\* are strictly ascending, and each lies between the smallest and the
\* largest value of its cluster.
C30_LevelsOrderIndependent ==
    pc = "done" =>
        /\ \A f \in Orders(Len(pivot_points)) :
              find_clusters(Permuted(ValuesOf(pivot_points), f)) = strong_levels
        /\ \A k \in 1..(Len(strong_levels) - 1) :
              Lt(strong_levels[k].price, strong_levels[k + 1].price)
        /\ \A k \in 1..Len(strong_levels) :
              \E a, b \in 1..Len(SortedPivots) :
                  /\ IsCluster(a, b)
                  /\ Eq(strong_levels[k].price, ClusterMean(a, b))
                  /\ Le(SortedPivots[a], strong_levels[k].price)
                  /\ Le(strong_levels[k].price, SortedPivots[b])

\* Two levels from pivot values that are not given in ascending order.
C30_Witness ==
    /\ pc = "done"
    /\ Len(strong_levels) >= 2
    /\ \E k \in 1..(Len(pivot_points) - 1) :
          pivot_points[k].Value > pivot_points[k + 1].Value

(***************************************************************************)
(* Claims about the alignment and the ranking of the correlation step.     *)
(***************************************************************************)
\* The dates on which every compared ticker has a bar.
InnerIndex(cols) == {d \in Dates : \A tk \in Range(cols) : market[tk][d] # 0}

\* The coefficient of two tickers over the inner-joined dates only.
InnerJoinCorr(cols, a, b) ==
    LET idx == InnerIndex(cols)
        ra == [d \in idx |-> pct_change(a, idx, d)]
        rb == [d \in idx |-> pct_change(b, idx, d)]
    IN  Pearson(ra, rb, idx)

\* The columns of the price frame: the tickers that have price data.
Cols == PricesDataKeys(tickers, 1)

\* C17: the coefficient of every pair of distinct tickers is computed over
\* the dates present in every ticker's series only: a date missing from at
\* least one series contributes to no coefficient.
C17_InnerJoinAlignment ==
    pc = "done" =>
        \A a, b \in Range(Cols) :
            a # b => correlation[a][b] = InnerJoinCorr(Cols, a, b)

\* The pair of a row, unordered.
PairOf(row) == {row.Stock1, row.Stock2}

Min(x, y) == IF x < y THEN x ELSE y

\* The rows of a list are rows of the enumeration, no pair twice.
RankedFrom(list) ==
    /\ \A k \in 1..Len(list) : \E m \in 1..Len(correlations) : list[k] = correlations[m]
    /\ \A k, m \in 1..Len(list) : k # m => PairOf(list[k]) # PairOf(list[m])

\* C18: the enumeration holds every unordered pair of distinct tickers
\* exactly once and no diagonal pair; the highest list holds the
\* min(3, pairs) pairs with the largest coefficients in descending order and
\* the lowest list the min(3, pairs) smallest in ascending order.
C18_RankedPairs ==
    (pc = "done" /\ Cols # <<>>) =>
        /\ \A k \in 1..Len(correlations) : Cardinality(PairOf(correlations[k])) = 2
        /\ \A a, b \in Range(Cols) :
              a # b => Cardinality({k \in 1..Len(correlations) :
                                      PairOf(correlations[k]) = {a, b}}) = 1
        /\ Len(highest_corr) = Min(TopK, Len(correlations))
        /\ Len(lowest_corr) = Min(TopK, Len(correlations))
        /\ RankedFrom(highest_corr)
        /\ RankedFrom(lowest_corr)
        /\ \A k \in 1..(Len(highest_corr) - 1) :
              Ge(Key(highest_corr[k]), Key(highest_corr[k + 1]))
        /\ \A k \in 1..(Len(lowest_corr) - 1) :
              Le(Key(lowest_corr[k]), Key(lowest_corr[k + 1]))
        /\ \A k \in 1..Len(highest_corr) : \A m \in 1..Len(correlations) :
              PairOf(correlations[m]) \notin {PairOf(highest_corr[n]) : n \in 1..Len(highest_corr)}
                 => Ge(Key(highest_corr[k]), Key(correlations[m]))
        /\ \A k \in 1..Len(lowest_corr) : \A m \in 1..Len(correlations) :
              PairOf(correlations[m]) \notin {PairOf(lowest_corr[n]) : n \in 1..Len(lowest_corr)}
                 => Le(Key(lowest_corr[k]), Key(correlations[m]))

(***************************************************************************)
(* Claims about the rate limiter and the retry loop.                       *)
(***************************************************************************)
\* C26: under any interleaving of concurrent callers that share the module
\* globals, any two admitted requests are at least _min_request_interval
\* apart.
C26_AdmittedRequestsSpaced ==
    \A i, j \in 1..Len(admitted) :
        i < j => Ge(Sub(admitted[j], admitted[i]), R(MinRequestInterval))

\* The read of stock.info number k was followed by another iteration.
Retried(k) == fetches[k] \in {"empty", "429"}

LastFetch == fetches[Len(fetches)]

RetryLoopInv ==
    /\ Len(fetches) <= max_retries
    /\ \A k \in 1..(Len(fetches) - 1) : Retried(k)
    /\ info = "info" <=> (fetches # <<>> /\ LastFetch = "info")
    /\ (fetches # <<>> /\ LastFetch = "error") => (pc = "done" /\ info = "None")
    /\ pc = "done" =>
          /\ info \in {"info", "None"}
          /\ info = "None" =>
                \/ fetches # <<>> /\ LastFetch = "error"
                \/ Len(fetches) = max_retries
    /\ pc # "done" =>
          /\ info = "running"
          /\ \A k \in 1..Len(fetches) : Retried(k)

\* C27: get_stock_info always terminates, after at most max_retries reads of
\* stock.info: it returns the first non-empty info, returns None at once on
\* an exception without "429", goes on to the next attempt after a 429
\* exception or an empty info, and returns None once max_retries attempts
\* are made.
C27_RetryLoopTerminates == []RetryLoopInv /\ <>(pc = "done")

\* None after max_retries attempts, a 429 first and an empty info last.
C27_Witness ==
    /\ pc = "done"
    /\ info = "None"
    /\ max_retries >= 2
    /\ Len(fetches) = max_retries
    /\ fetches[1] = "429"
    /\ LastFetch = "empty"

(***************************************************************************)
(* Claims about the portfolio.                                             *)
(***************************************************************************)
RECURSIVE TotalMarketValue(_)
TotalMarketValue(k) ==
    IF k > Len(portfolio_data) THEN 0
    ELSE portfolio_data[k].Market_Value + TotalMarketValue(k + 1)

RECURSIVE WeightSum(_)
WeightSum(k) ==
    IF k > Len(portfolio_data) THEN R(0)
    ELSE Add(portfolio_data[k].Weight, WeightSum(k + 1))

\* C28: the Weight of each returned holding is its market value divided by
\* the total market value of all returned holdings, as a percentage, so the
\* weights sum to 100 when the total is positive, whatever the order of the
\* holdings.
C28_WeightIsShareOfTotal ==
    portfolio_data # <<>> =>
        /\ \A k \in 1..Len(portfolio_data) :
              Eq(portfolio_data[k].Weight,
                 Mul(Div(R(portfolio_data[k].Market_Value), R(TotalMarketValue(1))),
                     R(100)))
        /\ TotalMarketValue(1) > 0 => Eq(WeightSum(1), R(100))

\* The closes of every holding never decrease from one bar to the next.
ClosesNeverDecrease ==
    \A k \in 1..Len(portfolio_data) :
        \A d, e \in HistIndex(portfolio_data[k].Ticker) :
            d <= e => market[portfolio_data[k].Ticker][d]
                        <= market[portfolio_data[k].Ticker][e]

\* C29: the portfolio value at every date is the sum of shares times close
\* and is positive when all closes and shares are positive: a date without
\* a trading bar carries no zero value; so a portfolio whose closes never
\* decrease has a maximum drawdown of 0.
C29_ValuePositiveNoDrawdown ==
    (pc = "done" /\ portfolio_data # <<>>) =>
        /\ \A d \in DOMAIN portfolio_values : Gt(portfolio_values[d], R(0))
        /\ ClosesNeverDecrease => Eq(max_drawdown, R(0))

=============================================================================
